---- MODULE Spec2Model ----
(***************************************************************************)
(* httpchat: the asynchronous delivery/consumption pipeline.               *)
(*                                                                         *)
(*   HTTP handlers (internal/handler)  -> service (internal/service)       *)
(*   -> PostgreSQL store (internal/repository) and Kafka producer;         *)
(*   the background relay (cmd/server/main.go, processKafkaMessages)       *)
(*   reads the topic and marks records processed with bounded retries.     *)
(*                                                                         *)
(* A failing SQL statement has no effect on the table.  The driver's       *)
(* Result.RowsAffected never fails (lib/pq returns driver.RowsAffected).   *)
(***************************************************************************)
EXTENDS Integers, Sequences, FiniteSets, Bags, TLC

----------------------------------------------------------------------------
(* Bounds of the model *)

\* Largest id the SERIAL sequence hands out (number of records created).
MaxID == 2
\* Payloads other producers put on the topic.
MaxForeign == 1
\* Last tick of the wall clock (time.Now() stays there afterwards).
MaxTime == 1
\* Records a direct caller of the repository creates.
MaxRows == 1

----------------------------------------------------------------------------
(* Program constants *)

\* validation.NewMessageValidator(1000) in NewMessageHandler
maxContentLength == 1000

StatusOK == 200
StatusBadRequest == 400
StatusNotFound == 404
StatusInternalServerError == 500
StatusServiceUnavailable == 503

ErrorCodeMessageNotFound == "MESSAGE_NOT_FOUND"
ErrorCodeDatabaseConnection == "DATABASE_CONNECTION_ERROR"
ErrorCodeDuplicateEntry == "DUPLICATE_ENTRY"
ErrorCodeInvalidInput == "INVALID_INPUT"
ErrorCodeTransactionFailed == "TRANSACTION_FAILED"
ErrorCodeSerializationFailed == "SERIALIZATION_FAILED"

ValidationErrorCodeEmptyContent == "EMPTY_CONTENT"
ValidationErrorCodeContentTooLong == "CONTENT_TOO_LONG"
ValidationErrorCodeInvalidCharacters == "INVALID_CHARACTERS"
ValidationErrorCodeInvalidID == "INVALID_ID"

----------------------------------------------------------------------------
(* Errors: a Go error value is nil, a *RepositoryError (errors.As finds it *)
(* through any fmt.Errorf("%w") wrapping) or some other error.             *)

NoErr == [isNil |-> TRUE, repo |-> FALSE, code |-> "", text |-> ""]
\* repositoryerr.New(code, op, err)
RepositoryError(code) == [isNil |-> FALSE, repo |-> TRUE, code |-> code, text |-> ""]
\* an error that wraps no *RepositoryError (fmt.Errorf over a Kafka error)
OtherError(text) == [isNil |-> FALSE, repo |-> FALSE, code |-> "", text |-> text]

----------------------------------------------------------------------------
(* Inputs *)

\* Request contents: a content is a sequence of runes.
LongContent == [i \in 1..(maxContentLength + 1) |-> "a"]
ValidContents == {<<"a">>, <<"h", "i">>}
InvalidContents == {<<>>, <<"<">>, <<"a", ">">>, LongContent}
\* The contents the service specification submits.
SubmitContents == {<<"a">>} \cup InvalidContents

\* cfg.KafkaMaxRetries is any int (default 3): the values the relay
\* specification explores, and those the service specification explores.
RetryConfigs == {-1, 0, 1, 2, 3}
ServiceRetryConfigs == {0, 1}

\* What the driver reports for one statement: it ran, PostgreSQL refused it
\* with an SQLSTATE, or the call failed otherwise (connection, context).
CreateOutcomes == {"ok", "23505", "23502", "23503", "25P02", "fail"}
UpdateOutcomes == {"ok", "22P02", "25P02", "fail"}
QueryOutcomes == {"ok", "25P02", "fail"}

\* The :id path parameter of PUT /messages/:id/process.
IdParams == [numeric : {TRUE}, value : 0..(MaxID + 1)]
              \cup {[numeric |-> FALSE, value |-> 0]}

----------------------------------------------------------------------------
(* internal/validation *)

\* A validation that lets '>' through.
ValidateWithoutGreater(content) ==
  IF content = <<>> THEN ValidationErrorCodeEmptyContent
  ELSE IF Len(content) > maxContentLength THEN ValidationErrorCodeContentTooLong
  ELSE IF \E i \in 1..Len(content) : content[i] = "<"
       THEN ValidationErrorCodeInvalidCharacters
  ELSE "nil"

ValidateMessageContent(content) ==
  IF content = <<>> THEN ValidationErrorCodeEmptyContent
  ELSE IF Len(content) > maxContentLength THEN ValidationErrorCodeContentTooLong
  ELSE IF \E i \in 1..Len(content) : content[i] \in {"<", ">"}
       THEN ValidationErrorCodeInvalidCharacters
  ELSE "nil"

ValidateMessageID(id) ==
  IF id <= 0 THEN ValidationErrorCodeInvalidID ELSE "nil"

----------------------------------------------------------------------------
(* internal/model *)

\* The zero value of model.Message
ZeroMessage ==
  [ID |-> 0, Content |-> <<>>, Processed |-> FALSE, CreatedAt |-> 0, UpdatedAt |-> 0]

----------------------------------------------------------------------------
(* internal/repository: the messages table is a set of rows *)

\* An insert that reads the clock again for updated_at.
CreateMessageTwoClocks(table, seq, content, t, outcome) ==
  LET message == [ID |-> seq, Content |-> content, Processed |-> FALSE,
                  CreatedAt |-> t, UpdatedAt |-> t + 1]
  IN  IF outcome = "ok"
      THEN [table |-> table \cup {message}, seq |-> seq + 1,
            message |-> message, err |-> NoErr]
      ELSE [table |-> table, seq |-> seq, message |-> message,
            err |-> RepositoryError("")]

\* A table whose processed column defaults to TRUE.
CreateMessageProcessed(table, seq, content, t, outcome) ==
  LET message == [ID |-> seq, Content |-> content, Processed |-> TRUE,
                  CreatedAt |-> t, UpdatedAt |-> t]
  IN  IF outcome = "ok"
      THEN [table |-> table \cup {message}, seq |-> seq + 1,
            message |-> message, err |-> NoErr]
      ELSE [table |-> table, seq |-> seq, message |-> message,
            err |-> RepositoryError("")]

\* A store whose failing insert leaves the row behind.
CreateMessageOnFailure(table, seq, content, t, outcome) ==
  LET message == [ID |-> seq, Content |-> content, Processed |-> FALSE,
                  CreatedAt |-> t, UpdatedAt |-> t]
  IN  [table |-> table \cup {message}, seq |-> seq + 1, message |-> message,
       err |-> IF outcome = "ok" THEN NoErr ELSE RepositoryError("")]

\* An insert that takes the id from a sequence it does not advance.
CreateMessageReusesId(table, seq, content, t, outcome) ==
  LET message == [ID |-> seq, Content |-> content, Processed |-> FALSE,
                  CreatedAt |-> t, UpdatedAt |-> t]
  IN  IF outcome = "ok"
      THEN [table |-> table \cup {message}, seq |-> seq,
            message |-> message, err |-> NoErr]
      ELSE [table |-> table, seq |-> seq, message |-> message,
            err |-> RepositoryError("")]

\* An insert that returns the new record without the row being stored.
CreateMessageNotStored(table, seq, content, t, outcome) ==
  LET message == [ID |-> seq, Content |-> content, Processed |-> FALSE,
                  CreatedAt |-> t, UpdatedAt |-> t]
  IN  IF outcome = "ok"
      THEN [table |-> table, seq |-> seq + 1, message |-> message, err |-> NoErr]
      ELSE [table |-> table, seq |-> seq, message |-> message,
            err |-> RepositoryError("")]

\* INSERT INTO messages (content, created_at, updated_at) VALUES ($1, now, now)
\* RETURNING ...: id from the SERIAL sequence, processed DEFAULT FALSE.
CreateMessage(table, seq, content, t, outcome) ==
  LET message == [ID |-> seq, Content |-> content, Processed |-> FALSE,
                  CreatedAt |-> t, UpdatedAt |-> t]
      failed(code) == [table |-> table, seq |-> seq, message |-> message,
                       err |-> RepositoryError(code)]
  IN  CASE outcome = "23505" -> failed(ErrorCodeDuplicateEntry)
        [] outcome = "23502" -> failed(ErrorCodeInvalidInput)
        [] outcome = "23503" -> failed(ErrorCodeInvalidInput)
        [] outcome = "25P02" -> failed(ErrorCodeTransactionFailed)
        [] outcome = "fail"  -> failed("")
        [] OTHER -> [table |-> table \cup {message}, seq |-> seq + 1,
                     message |-> message, err |-> NoErr]

\* An update whose row count is that of the rows it changed.
UpdateCountsChangedRows(table, id, processed, t, outcome) ==
  LET rows == {m \in table : m.ID = id}
      changed == {m \in rows : m.Processed # processed}
      updated == (table \ rows) \cup
                 {[m EXCEPT !.Processed = processed, !.UpdatedAt = t] : m \in rows}
  IN  IF outcome # "ok" THEN [table |-> table, err |-> RepositoryError("")]
      ELSE IF changed = {}
           THEN [table |-> updated, err |-> RepositoryError(ErrorCodeMessageNotFound)]
           ELSE [table |-> updated, err |-> NoErr]

\* An update that does not look at the number of rows affected.
UpdateIgnoresRowCount(table, id, processed, t, outcome) ==
  LET rows == {m \in table : m.ID = id}
      updated == (table \ rows) \cup
                 {[m EXCEPT !.Processed = processed, !.UpdatedAt = t] : m \in rows}
  IN  IF outcome # "ok" THEN [table |-> table, err |-> RepositoryError("")]
      ELSE [table |-> updated, err |-> NoErr]

\* An update that flips the flag instead of setting it.
UpdateToggles(table, id, processed, t, outcome) ==
  LET rows == {m \in table : m.ID = id}
      updated == (table \ rows) \cup
                 {[m EXCEPT !.Processed = ~m.Processed, !.UpdatedAt = t] : m \in rows}
  IN  IF outcome # "ok" THEN [table |-> table, err |-> RepositoryError("")]
      ELSE IF rows = {}
           THEN [table |-> table, err |-> RepositoryError(ErrorCodeMessageNotFound)]
           ELSE [table |-> updated, err |-> NoErr]

\* An update that writes the whole row from a message holding only id and flag.
UpdateRewritesRow(table, id, processed, t, outcome) ==
  LET rows == {m \in table : m.ID = id}
      updated == (table \ rows) \cup
                 {[ZeroMessage EXCEPT !.ID = id, !.Processed = processed,
                                      !.UpdatedAt = t] : m \in rows}
  IN  IF outcome # "ok" THEN [table |-> table, err |-> RepositoryError("")]
      ELSE IF rows = {}
           THEN [table |-> table, err |-> RepositoryError(ErrorCodeMessageNotFound)]
           ELSE [table |-> updated, err |-> NoErr]

\* A store whose failing update has been applied all the same.
UpdateAppliedOnFailure(table, id, processed, t, outcome) ==
  LET rows == {m \in table : m.ID = id}
      updated == (table \ rows) \cup
                 {[m EXCEPT !.Processed = processed, !.UpdatedAt = t] : m \in rows}
  IN  CASE outcome = "22P02" ->
             [table |-> updated, err |-> RepositoryError(ErrorCodeInvalidInput)]
        [] outcome = "25P02" ->
             [table |-> updated, err |-> RepositoryError(ErrorCodeTransactionFailed)]
        [] outcome = "fail" ->
             [table |-> updated, err |-> RepositoryError("")]
        [] OTHER ->
             IF rows = {}
             THEN [table |-> updated, err |-> RepositoryError(ErrorCodeMessageNotFound)]
             ELSE [table |-> updated, err |-> NoErr]

\* An update guarded by the flag's old value: WHERE id = $3 AND processed <> $1.
UpdateOnlyUnprocessed(table, id, processed, t, outcome) ==
  LET rows == {m \in table : m.ID = id /\ m.Processed # processed}
      updated == (table \ rows) \cup
                 {[m EXCEPT !.Processed = processed, !.UpdatedAt = t] : m \in rows}
  IN  IF outcome # "ok" THEN [table |-> table, err |-> RepositoryError("")]
      ELSE IF Cardinality(rows) = 0
           THEN [table |-> updated, err |-> RepositoryError(ErrorCodeMessageNotFound)]
           ELSE [table |-> updated, err |-> NoErr]

\* UPDATE messages SET processed = $1, updated_at = now WHERE id = $3.
\* A statement that fails is not applied.  result.RowsAffected() returns no
\* error with lib/pq, so that branch is not an outcome.
UpdateMessageStatus(table, id, processed, t, outcome) ==
  LET rows == {m \in table : m.ID = id}
      updated == (table \ rows) \cup
                 {[m EXCEPT !.Processed = processed, !.UpdatedAt = t] : m \in rows}
      rowsAffected == Cardinality(rows)
  IN  CASE outcome = "22P02" ->
             [table |-> table, err |-> RepositoryError(ErrorCodeInvalidInput)]
        [] outcome = "25P02" ->
             [table |-> table, err |-> RepositoryError(ErrorCodeTransactionFailed)]
        [] outcome = "fail" ->
             [table |-> table, err |-> RepositoryError("")]
        [] OTHER ->
             IF rowsAffected = 0
             THEN [table |-> updated, err |-> RepositoryError(ErrorCodeMessageNotFound)]
             ELSE [table |-> updated, err |-> NoErr]

ZeroStatistics ==
  [TotalMessages |-> 0, ProcessedMessages |-> 0, UnprocessedMessages |-> 0]

\* A query whose third count has no filter.
GetStatisticsMiscount(table, outcome) ==
  IF outcome = "ok"
  THEN [stats |-> [TotalMessages |-> Cardinality(table),
                   ProcessedMessages |->
                     Cardinality({m \in table : m.Processed = TRUE}),
                   UnprocessedMessages |-> Cardinality(table)],
        err |-> NoErr]
  ELSE [stats |-> ZeroStatistics, err |-> RepositoryError("")]

\* SELECT COUNT(*), COUNT(CASE WHEN processed = TRUE THEN 1 END),
\*        COUNT(CASE WHEN processed = FALSE THEN 1 END) FROM messages
GetStatistics(table, outcome) ==
  CASE outcome = "25P02" ->
         [stats |-> ZeroStatistics, err |-> RepositoryError(ErrorCodeTransactionFailed)]
    [] outcome = "fail" ->
         [stats |-> ZeroStatistics, err |-> RepositoryError("")]
    [] OTHER ->
         [stats |-> [TotalMessages |-> Cardinality(table),
                     ProcessedMessages |->
                       Cardinality({m \in table : m.Processed = TRUE}),
                     UnprocessedMessages |->
                       Cardinality({m \in table : m.Processed = FALSE})],
          err |-> NoErr]

\* SELECT id, content, processed, created_at, updated_at FROM messages
\* WHERE id = $1
GetMessageByID(table, id, outcome) ==
  LET rows == {m \in table : m.ID = id}
      failed(code) == [message |-> ZeroMessage, err |-> RepositoryError(code)]
  IN  CASE outcome = "22P02" -> failed(ErrorCodeInvalidInput)
        [] outcome = "25P02" -> failed(ErrorCodeTransactionFailed)
        [] outcome = "fail" -> failed("")
        [] OTHER ->
             IF rows = {}
             THEN failed(ErrorCodeMessageNotFound)
             ELSE [message |-> CHOOSE m \in rows : TRUE, err |-> NoErr]

----------------------------------------------------------------------------
(* Queue envelope: json.Marshal / json.Unmarshal of model.Message *)

Marshal(message) ==
  [json |-> TRUE, id |-> message.ID, content |-> message.Content,
   processed |-> message.Processed, created_at |-> message.CreatedAt,
   updated_at |-> message.UpdatedAt]

\* bytes that are not a JSON object
Malformed ==
  [json |-> FALSE, id |-> 0, content |-> <<>>, processed |-> FALSE,
   created_at |-> 0, updated_at |-> 0]

\* A decoder that reports no error and leaves the zero message for bytes
\* that are not JSON.
UnmarshalLenient(bytes) ==
  IF bytes.json
  THEN [err |-> FALSE,
        message |-> [ID |-> bytes.id, Content |-> bytes.content,
                     Processed |-> bytes.processed, CreatedAt |-> bytes.created_at,
                     UpdatedAt |-> bytes.updated_at]]
  ELSE [err |-> FALSE, message |-> ZeroMessage]

\* json.Unmarshal(msg, &message): an error for bytes that are not JSON
Unmarshal(bytes) ==
  IF bytes.json
  THEN [err |-> FALSE,
        message |-> [ID |-> bytes.id, Content |-> bytes.content,
                     Processed |-> bytes.processed, CreatedAt |-> bytes.created_at,
                     UpdatedAt |-> bytes.updated_at]]
  ELSE [err |-> TRUE, message |-> ZeroMessage]

\* Payloads another producer may put on the topic: not JSON, an object
\* without an id, and two envelopes that name the first record, one with the
\* record's own fields and one with other content, flag and timestamps.
ForeignPayloads ==
  {Malformed,
   [json |-> TRUE, id |-> 0, content |-> <<"x">>, processed |-> FALSE,
    created_at |-> 0, updated_at |-> 0],
   [json |-> TRUE, id |-> 1, content |-> <<"a">>, processed |-> FALSE,
    created_at |-> 0, updated_at |-> 0],
   [json |-> TRUE, id |-> 1, content |-> <<"x">>, processed |-> TRUE,
    created_at |-> 1, updated_at |-> 1]}

----------------------------------------------------------------------------
(* internal/kafka *)

\* A writer that reports a failure for a message it has delivered.
SendMessageAnyway(topic, bytes, delivered) ==
  [topic |-> topic (+) SetToBag({[value |-> bytes, origin |-> "submit"]}),
   err |-> IF delivered THEN NoErr
           ELSE OtherError("failed to write message to Kafka")]

\* A writer that sends again after a delivery whose acknowledgement it missed.
SendMessageTwice(topic, bytes, delivered) ==
  IF delivered
  THEN [topic |-> topic (+) SetToBag({[value |-> bytes, origin |-> "submit"]})
                        (+) SetToBag({[value |-> bytes, origin |-> "submit"]}),
        err |-> NoErr]
  ELSE [topic |-> topic, err |-> OtherError("failed to write message to Kafka")]

\* ProducerImpl.SendMessage: one WriteMessages call, no retry.  delivered is
\* whether the writer got the message to the topic.
SendMessage(topic, bytes, delivered) ==
  IF delivered
  THEN [topic |-> topic (+) SetToBag({[value |-> bytes, origin |-> "submit"]}),
        err |-> NoErr]
  ELSE [topic |-> topic, err |-> OtherError("failed to write message to Kafka")]

----------------------------------------------------------------------------
(* internal/handler *)

NoResponse ==
  [op |-> "none", status |-> 0, id |-> 0, content |-> <<>>, outcome |-> "none",
   stats |-> ZeroStatistics]
\* A response, with the request's content or id it answers and the outcome
\* of the repository call behind it ("none" when the repository was not called).
Response(op, status, id, content, outcome) ==
  [op |-> op, status |-> status, id |-> id, content |-> content, outcome |-> outcome,
   stats |-> ZeroStatistics]

\* handleServiceError: the HTTP status of a service error
handleServiceError(err) ==
  IF err.repo
  THEN CASE err.code = ErrorCodeInvalidInput -> StatusBadRequest
         [] err.code = ErrorCodeDuplicateEntry -> StatusBadRequest
         [] err.code = ErrorCodeMessageNotFound -> StatusNotFound
         [] err.code = ErrorCodeDatabaseConnection -> StatusServiceUnavailable
         [] OTHER -> StatusInternalServerError
  ELSE StatusInternalServerError

----------------------------------------------------------------------------
(* internal/service *)

\* handleError: logs and wraps with %w, so the *RepositoryError and its code
\* stay reachable by errors.As
handleError(err) ==
  IF err.repo
  THEN CASE err.code = ErrorCodeMessageNotFound -> [err EXCEPT !.text = "message not found"]
         [] err.code = ErrorCodeInvalidInput -> [err EXCEPT !.text = "invalid input"]
         [] err.code = ErrorCodeDatabaseConnection -> [err EXCEPT !.text = "database unavailable"]
         [] err.code = ErrorCodeDuplicateEntry -> [err EXCEPT !.text = "duplicate entry"]
         [] OTHER -> [err EXCEPT !.text = "operation failed"]
  ELSE [err EXCEPT !.text = "operation failed"]

\* A ProcessMessage that writes processed = false.
ProcessMessageUnset(table, id, t, outcome) ==
  LET r == UpdateMessageStatus(table, id, FALSE, t, outcome)
  IN  [table |-> r.table,
       err |-> IF r.err.isNil THEN NoErr ELSE handleError(r.err)]

\* ProcessMessage: repo.UpdateMessageStatus(ctx, id, true)
ProcessMessage(table, id, t, outcome) ==
  LET r == UpdateMessageStatus(table, id, TRUE, t, outcome)
  IN  [table |-> r.table,
       err |-> IF r.err.isNil THEN NoErr ELSE handleError(r.err)]

----------------------------------------------------------------------------
(* Direct callers of interfaces.MessageRepository *)

NoReturn ==
  [op |-> "none", content |-> <<>>, id |-> 0, processed |-> FALSE,
   message |-> ZeroMessage, err |-> NoErr]
\* What a repository call returned, with its arguments: content for
\* CreateMessage, id for GetMessageByID, id and processed for
\* UpdateMessageStatus.
Return(op, content, id, processed, message, err) ==
  [op |-> op, content |-> content, id |-> id, processed |-> processed,
   message |-> message, err |-> err]

\* The contents and ids a direct caller passes.
StoreContents == ValidContents \cup InvalidContents
StoreIds == 0..(MaxRows + 1)

----------------------------------------------------------------------------
VARIABLES
  messages,          \* the messages table
  nextID,            \* the SERIAL sequence of messages.id
  now,               \* time.Now()
  broker,            \* the topic: the bag of payloads published and not yet read
  inflight,          \* records of submits between create and publish
  unqueued,          \* ids of records whose publish failed
  resp,              \* the HTTP response being written, or NoResponse
  foreign,           \* number of payloads other producers have published
  ret,               \* what the latest direct call of the repository returned
  maxRetries,        \* cfg.KafkaMaxRetries
  mainPc,            \* main(): serving, then the shutdown sequence
  relayPc,           \* processKafkaMessages: where the loop is
  message,           \* the decoded model.Message
  origin,            \* who published the payload being processed
  attempt,           \* the retry loop's counter
  shouldSkipMessage,
  processErr,
  returned,          \* what the latest ProcessMessage call for this message returned
  calls,             \* ProcessMessage calls made for this message
  fails,             \* those that returned an error
  sleeps             \* time.Sleep(retryDelay) calls for this message

storeVars == <<messages, nextID>>
httpVars == <<inflight, unqueued, resp>>
relayVars == <<relayPc, message, origin, attempt, shouldSkipMessage, processErr,
               returned, calls, fails, sleeps>>
vars == <<messages, nextID, now, broker, inflight, unqueued, resp, foreign,
          ret, maxRetries, mainPc, relayPc, message, origin, attempt,
          shouldSkipMessage, processErr, returned, calls, fails, sleeps>>

\* ctx.Done(): main's deferred cancel() runs when main returns
ctxDone == mainPc = "returned"
\* consumer.Close() has run
consumerClosed == mainPc \in {"consumer_closed", "producer_closed", "returned"}
\* producer.Close() has run
producerClosed == mainPc \in {"producer_closed", "returned"}

\* The process has started: nothing in progress, the relay at its loop top.
Started ==
  /\ now = 0
  /\ inflight = {}
  /\ unqueued = {}
  /\ resp = NoResponse
  /\ foreign = 0
  /\ ret = NoReturn
  /\ mainPc = "serving"
  /\ relayPc = "top"
  /\ message = ZeroMessage
  /\ origin = "none"
  /\ attempt = 0
  /\ shouldSkipMessage = FALSE
  /\ processErr = NoErr
  /\ returned = NoErr
  /\ calls = 0
  /\ fails = 0
  /\ sleeps = 0

\* The service on a fresh database and an empty topic.
Init ==
  /\ Started
  /\ messages = {}
  /\ nextID = 1
  /\ broker = EmptyBag
  /\ maxRetries \in ServiceRetryConfigs

\* The repository on a fresh database; the relay's configuration is the
\* default and plays no part.
StoreInit ==
  /\ Started
  /\ messages = {}
  /\ nextID = 1
  /\ broker = EmptyBag
  /\ maxRetries \in {3}

\* Tables an earlier run may have left (CREATE TABLE IF NOT EXISTS keeps the
\* rows): none, or the first record.
PersistedTables ==
  {{}, {[ID |-> 1, Content |-> <<"a">>, Processed |-> FALSE, CreatedAt |-> 0, UpdatedAt |-> 0]}}

\* The relay started over a database an earlier run may have filled.
RelayInit ==
  /\ Started
  /\ messages \in PersistedTables
  /\ nextID = Cardinality(messages) + 1
  /\ broker = EmptyBag
  /\ maxRetries \in RetryConfigs

----------------------------------------------------------------------------
(* Environment *)

\* The wall clock advances.
Tick ==
  /\ now < MaxTime
  /\ now' = now + 1
  /\ UNCHANGED <<storeVars, broker, httpVars, foreign, ret, maxRetries, mainPc, relayVars>>

\* Another producer publishes to the topic.
ForeignPublish ==
  /\ foreign < MaxForeign
  /\ \E bytes \in ForeignPayloads :
       broker' = broker (+) SetToBag({[value |-> bytes, origin |-> "foreign"]})
  /\ foreign' = foreign + 1
  /\ UNCHANGED <<storeVars, now, httpVars, ret, maxRetries, mainPc, relayVars>>

----------------------------------------------------------------------------
(* The repository called directly, as its integration tests do *)

RepoCreateMessage(contents) ==
  /\ Cardinality(messages) < MaxRows
  /\ \E content \in contents, outcome \in CreateOutcomes :
       LET r == CreateMessage(messages, nextID, content, now, outcome)
       IN  /\ messages' = r.table
           /\ nextID' = r.seq
           /\ ret' = Return("create", content, 0, FALSE,
                            IF r.err.isNil THEN r.message ELSE ZeroMessage, r.err)
  /\ UNCHANGED <<now, broker, httpVars, foreign, maxRetries, mainPc, relayVars>>

RepoGetMessageByID ==
  /\ \E id \in StoreIds, outcome \in QueryOutcomes :
       LET r == GetMessageByID(messages, id, outcome)
       IN  ret' = Return("get", <<>>, id, FALSE, r.message, r.err)
  /\ UNCHANGED <<storeVars, now, broker, httpVars, foreign, maxRetries, mainPc, relayVars>>

RepoUpdateMessageStatus ==
  /\ \E id \in StoreIds, processed \in BOOLEAN, outcome \in UpdateOutcomes :
       LET r == UpdateMessageStatus(messages, id, processed, now, outcome)
       IN  /\ messages' = r.table
           /\ ret' = Return("update", <<>>, id, processed, ZeroMessage, r.err)
  /\ UNCHANGED <<nextID, now, broker, httpVars, foreign, maxRetries, mainPc, relayVars>>

----------------------------------------------------------------------------
(* HTTP requests.  A handler writes its response (resp) and returns. *)

accepting == mainPc # "returned" /\ resp = NoResponse

\* POST /messages, up to the store's create: CreateMessageHandler steps 1-3
\* and service.CreateMessage step 1.
SubmitCreate ==
  /\ accepting
  /\ nextID <= MaxID
  /\ \E content \in SubmitContents, outcome \in CreateOutcomes :
       IF ValidateMessageContent(content) # "nil"
       THEN /\ resp' = Response("submit", StatusBadRequest, 0, content, "none")
            /\ UNCHANGED <<storeVars, inflight>>
       ELSE LET r == CreateMessage(messages, nextID, content, now, outcome)
            IN  IF r.err.isNil
                THEN /\ messages' = r.table
                     /\ nextID' = r.seq
                     /\ inflight' = inflight \cup {r.message}
                     /\ resp' = resp
                ELSE /\ messages' = r.table
                     /\ nextID' = r.seq
                     /\ inflight' = inflight
                     /\ resp' = Response("submit", handleServiceError(handleError(r.err)),
                                         0, content, outcome)
  /\ UNCHANGED <<now, broker, unqueued, foreign, ret, maxRetries, mainPc, relayVars>>

\* POST /messages, the rest: service.CreateMessage steps 2-3 and the response.
SubmitPublish ==
  /\ resp = NoResponse
  /\ \E m \in inflight, delivered \in BOOLEAN :
       LET r == SendMessage(broker, Marshal(m), delivered /\ ~producerClosed)
       IN  /\ inflight' = inflight \ {m}
           /\ broker' = r.topic
           /\ IF r.err.isNil
              THEN /\ resp' = Response("submit", StatusOK, m.ID, m.Content, "ok")
                   /\ unqueued' = unqueued
              ELSE /\ resp' = Response("submit", handleServiceError(r.err), 0, m.Content, "ok")
                   /\ unqueued' = unqueued \cup {m.ID}
  /\ UNCHANGED <<storeVars, now, foreign, ret, maxRetries, mainPc, relayVars>>

\* PUT /messages/:id/process
ProcessMessageHandler ==
  /\ accepting
  /\ \E idParam \in IdParams, outcome \in UpdateOutcomes :
       IF ~idParam.numeric \/ ValidateMessageID(idParam.value) # "nil"
       THEN /\ resp' = Response("process", StatusBadRequest, idParam.value, <<>>, "none")
            /\ messages' = messages
       ELSE LET r == ProcessMessage(messages, idParam.value, now, outcome)
            IN  /\ messages' = r.table
                /\ resp' = Response("process",
                                    IF r.err.isNil THEN StatusOK ELSE handleServiceError(r.err),
                                    idParam.value, <<>>, outcome)
  /\ UNCHANGED <<nextID, now, broker, inflight, unqueued, foreign, ret, maxRetries, mainPc, relayVars>>

\* GET /statistics
GetStatisticsHandler ==
  /\ accepting
  /\ \E outcome \in QueryOutcomes :
       LET r == GetStatistics(messages, outcome)
       IN  resp' = IF r.err.isNil
                   THEN [Response("statistics", StatusOK, 0, <<>>, outcome) EXCEPT !.stats = r.stats]
                   ELSE Response("statistics", handleServiceError(r.err), 0, <<>>, outcome)
  /\ UNCHANGED <<storeVars, now, broker, inflight, unqueued, foreign, ret, maxRetries, mainPc, relayVars>>

\* The handler returns; the response is on the wire.
HandlerReturn ==
  /\ resp # NoResponse
  /\ resp' = NoResponse
  /\ UNCHANGED <<storeVars, now, broker, inflight, unqueued, foreign, ret, maxRetries, mainPc, relayVars>>

----------------------------------------------------------------------------
(* main(): the shutdown sequence *)

\* <-quit, then consumer.Close()
CloseConsumer ==
  /\ mainPc = "serving"
  /\ mainPc' = "consumer_closed"
  /\ UNCHANGED <<storeVars, now, broker, httpVars, foreign, ret, maxRetries, relayVars>>

\* producer.Close()
CloseProducer ==
  /\ mainPc = "consumer_closed"
  /\ mainPc' = "producer_closed"
  /\ UNCHANGED <<storeVars, now, broker, httpVars, foreign, ret, maxRetries, relayVars>>

\* server.Shutdown waits for the requests in progress; main returns and its
\* deferred cancel() runs.
ServerShutdown ==
  /\ mainPc = "producer_closed"
  /\ inflight = {}
  /\ resp = NoResponse
  /\ mainPc' = "returned"
  /\ UNCHANGED <<storeVars, now, broker, httpVars, foreign, ret, maxRetries, relayVars>>

----------------------------------------------------------------------------
(* processKafkaMessages *)

\* A classification that retries every error.
RetryEverything(err) == FALSE

\* A classification that is looked at on the first attempt only.
NonRetryableFirstAttempt(err) ==
  /\ attempt = 0
  /\ err.repo
  /\ err.code \in {ErrorCodeMessageNotFound, ErrorCodeInvalidInput}

\* The switch on repoErr.ErrorCode(): the errors that are not retried.
NonRetryable(err) ==
  err.repo /\ err.code \in {ErrorCodeMessageNotFound, ErrorCodeInvalidInput}

\* Which of the three closing log lines follows the retry loop.
AfterLoop(skip, err) ==
  IF skip THEN "skipped" ELSE IF ~err.isNil THEN "failed" ELSE "success"

\* A retry loop that makes one pass more.
LoopPcOneMore(att, skip, err) ==
  IF att <= maxRetries + 1 THEN "process" ELSE AfterLoop(skip, err)

\* The retry loop's condition, attempt <= maxRetries: another pass, or out.
LoopPc(att, skip, err) ==
  IF att <= maxRetries THEN "process" ELSE AfterLoop(skip, err)

\* select { case <-ctx.Done(): return; default: ... }
RelayTop ==
  /\ relayPc = "top"
  /\ relayPc' = IF ctxDone THEN "exited" ELSE "read"
  /\ UNCHANGED <<storeVars, now, broker, httpVars, foreign, ret, maxRetries, mainPc,
                 message, origin, attempt, shouldSkipMessage, processErr,
                 returned, calls, fails, sleeps>>

\* A loop that also reads the next payload while the retry delay of the
\* current message runs.
RelayReadWhileBusy ==
  /\ relayPc \in {"read", "sleep"}
  /\ ~consumerClosed
  /\ \E entry \in BagToSet(broker) :
       /\ broker' = broker (-) SetToBag({entry})
       /\ LET d == Unmarshal(entry.value)
          IN  IF d.err
              THEN /\ relayPc' = "decode_err"
                   /\ UNCHANGED <<message, origin, attempt, shouldSkipMessage, processErr>>
              ELSE /\ message' = d.message
                   /\ origin' = entry.origin
                   /\ shouldSkipMessage' = FALSE
                   /\ processErr' = NoErr
                   /\ attempt' = 0
                   /\ relayPc' = LoopPc(0, FALSE, NoErr)
  /\ UNCHANGED <<storeVars, now, httpVars, foreign, ret, maxRetries, mainPc,
                 returned, calls, fails, sleeps>>

\* consumer.ReadMessage returns a payload; json.Unmarshal
RelayRead ==
  /\ relayPc = "read"
  /\ ~consumerClosed
  /\ \E entry \in BagToSet(broker) :
       /\ broker' = broker (-) SetToBag({entry})
       /\ LET d == Unmarshal(entry.value)
          IN  IF d.err
              THEN /\ relayPc' = "decode_err"
                   /\ UNCHANGED <<message, origin, attempt, shouldSkipMessage, processErr>>
              ELSE /\ message' = d.message
                   /\ origin' = entry.origin
                   /\ shouldSkipMessage' = FALSE
                   /\ processErr' = NoErr
                   /\ attempt' = 0
                   /\ relayPc' = LoopPc(0, FALSE, NoErr)
  /\ UNCHANGED <<storeVars, now, httpVars, foreign, ret, maxRetries, mainPc,
                 returned, calls, fails, sleeps>>

\* A read failure that is logged and retried whatever ctx.Err() says.
RelayReadErrorContinues ==
  /\ relayPc = "read"
  /\ relayPc' = "read_err"
  /\ UNCHANGED <<storeVars, now, broker, httpVars, foreign, ret, maxRetries, mainPc,
                 message, origin, attempt, shouldSkipMessage, processErr,
                 returned, calls, fails, sleeps>>

\* A read failure that ends the loop whatever ctx.Err() says.
RelayReadErrorReturns ==
  /\ relayPc = "read"
  /\ relayPc' = "exited"
  /\ UNCHANGED <<storeVars, now, broker, httpVars, foreign, ret, maxRetries, mainPc,
                 message, origin, attempt, shouldSkipMessage, processErr,
                 returned, calls, fails, sleeps>>

\* consumer.ReadMessage fails (transport error, closed reader, cancelled ctx)
RelayReadError ==
  /\ relayPc = "read"
  /\ relayPc' = IF ctxDone THEN "exited" ELSE "read_err"
  /\ UNCHANGED <<storeVars, now, broker, httpVars, foreign, ret, maxRetries, mainPc,
                 message, origin, attempt, shouldSkipMessage, processErr,
                 returned, calls, fails, sleeps>>

\* A pass that writes the envelope's processed flag to the record.
RelayProcessTrustsEnvelope ==
  /\ relayPc = "process"
  /\ \E outcome \in (IF ctxDone THEN {"fail"} ELSE UpdateOutcomes) :
       LET u == UpdateMessageStatus(messages, message.ID, message.Processed, now, outcome)
           r == [table |-> u.table,
                 err |-> IF u.err.isNil THEN NoErr ELSE handleError(u.err)]
       IN  /\ messages' = r.table
           /\ returned' = r.err
           /\ calls' = calls + 1
           /\ fails' = IF r.err.isNil THEN fails ELSE fails + 1
           /\ IF r.err.isNil
              THEN /\ processErr' = NoErr
                   /\ UNCHANGED <<shouldSkipMessage, attempt>>
                   /\ relayPc' = AfterLoop(shouldSkipMessage, NoErr)
              ELSE IF NonRetryable(r.err)
              THEN /\ shouldSkipMessage' = TRUE
                   /\ processErr' = NoErr
                   /\ attempt' = attempt
                   /\ relayPc' = AfterLoop(TRUE, NoErr)
              ELSE /\ processErr' = r.err
                   /\ shouldSkipMessage' = shouldSkipMessage
                   /\ IF attempt < maxRetries
                      THEN /\ relayPc' = "sleep"
                           /\ attempt' = attempt
                      ELSE /\ attempt' = attempt + 1
                           /\ relayPc' = LoopPc(attempt + 1, shouldSkipMessage, r.err)
  /\ UNCHANGED <<nextID, now, broker, httpVars, foreign, ret, maxRetries, mainPc,
                 message, origin, sleeps>>

\* One pass of the retry loop's body: service.ProcessMessage and the
\* classification of its error.  A cancelled ctx fails the statement.
RelayProcess ==
  /\ relayPc = "process"
  /\ \E outcome \in (IF ctxDone THEN {"fail"} ELSE UpdateOutcomes) :
       LET r == ProcessMessage(messages, message.ID, now, outcome)
       IN  /\ messages' = r.table
           /\ returned' = r.err
           /\ calls' = calls + 1
           /\ fails' = IF r.err.isNil THEN fails ELSE fails + 1
           /\ IF r.err.isNil
              THEN /\ processErr' = NoErr
                   /\ UNCHANGED <<shouldSkipMessage, attempt>>
                   /\ relayPc' = AfterLoop(shouldSkipMessage, NoErr)
              ELSE IF NonRetryable(r.err)
              THEN /\ shouldSkipMessage' = TRUE
                   /\ processErr' = NoErr
                   /\ attempt' = attempt
                   /\ relayPc' = AfterLoop(TRUE, NoErr)
              ELSE /\ processErr' = r.err
                   /\ shouldSkipMessage' = shouldSkipMessage
                   /\ IF attempt < maxRetries
                      THEN /\ relayPc' = "sleep"
                           /\ attempt' = attempt
                      ELSE /\ attempt' = attempt + 1
                           /\ relayPc' = LoopPc(attempt + 1, shouldSkipMessage, r.err)
  /\ UNCHANGED <<nextID, now, broker, httpVars, foreign, ret, maxRetries, mainPc,
                 message, origin, sleeps>>

\* A sleep that never returns.
RelaySleepForever ==
  /\ relayPc = "sleep"
  /\ UNCHANGED vars

\* time.Sleep(retryDelay), then attempt++ and the loop condition
RelaySleep ==
  /\ relayPc = "sleep"
  /\ sleeps' = sleeps + 1
  /\ attempt' = attempt + 1
  /\ relayPc' = LoopPc(attempt + 1, shouldSkipMessage, processErr)
  /\ UNCHANGED <<storeVars, now, broker, httpVars, foreign, ret, maxRetries, mainPc,
                 message, origin, shouldSkipMessage, processErr, returned, calls, fails>>

\* The log line that closes an iteration, then `continue` (or the end of the
\* loop body): the next iteration declares its locals afresh.
RelayContinue ==
  /\ relayPc \in {"read_err", "decode_err", "skipped", "failed", "success"}
  /\ relayPc' = "top"
  /\ message' = ZeroMessage
  /\ origin' = "none"
  /\ attempt' = 0
  /\ shouldSkipMessage' = FALSE
  /\ processErr' = NoErr
  /\ returned' = NoErr
  /\ calls' = 0
  /\ fails' = 0
  /\ sleeps' = 0
  /\ UNCHANGED <<storeVars, now, broker, httpVars, foreign, ret, maxRetries, mainPc>>

Relay ==
  \/ RelayTop
  \/ RelayRead
  \/ RelayReadError
  \/ RelayProcess
  \/ RelaySleep
  \/ RelayContinue

----------------------------------------------------------------------------
(* Specifications *)

\* The service: concurrent requests and the relay, on a fresh database.
Next ==
  \/ SubmitCreate
  \/ SubmitPublish
  \/ ProcessMessageHandler
  \/ GetStatisticsHandler
  \/ HandlerReturn
  \/ Relay

Spec == Init /\ [][Next]_vars

\* The relay alone, fed by another producer, over a persisted table and
\* every retry configuration.
RelayNext ==
  \/ ForeignPublish
  \/ Relay

RelaySpec == RelayInit /\ [][RelayNext]_vars

\* The repository under a direct caller that passes valid contents, with
\* the clock running.
StoreNext ==
  \/ Tick
  \/ RepoCreateMessage(ValidContents)
  \/ RepoGetMessageByID
  \/ RepoUpdateMessageStatus

StoreSpec == StoreInit /\ [][StoreNext]_vars

\* The repository under a direct caller that passes any content.
AnyContentNext ==
  \/ RepoCreateMessage(StoreContents)
  \/ RepoGetMessageByID
  \/ RepoUpdateMessageStatus

AnyContentSpec == StoreInit /\ [][AnyContentNext]_vars

\* The relay while main goes through its shutdown sequence.
ShutdownNext ==
  \/ ForeignPublish
  \/ Relay
  \/ CloseConsumer
  \/ CloseProducer
  \/ ServerShutdown

ShutdownSpec == RelayInit /\ [][ShutdownNext]_vars

\* The relay goroutine keeps running: the scheduler runs it, and every store
\* call, read and sleep it makes returns.
FairRelaySpec == RelaySpec /\ WF_vars(Relay)

----------------------------------------------------------------------------
(* The retry policy of the relay *)

Max0(n) == IF n < 0 THEN 0 ELSE n

\* The closing branches of an iteration that handled a decoded message:
\* applied, abandoned as non-retryable, abandoned with retries exhausted.
Terminal == {"success", "skipped", "failed"}

\* C1: for every envelope the loop decodes and every sequence of store
\* outcomes, the relay calls service.ProcessMessage at most maxRetries+1 times
\* and sleeps retryDelay at most maxRetries times before it goes on to the
\* next read (none at all when maxRetries is negative).
C1_BoundedAttempts ==
  /\ calls <= Max0(maxRetries + 1)
  /\ sleeps <= Max0(maxRetries)

\* Three calls and two sleeps with maxRetries = 2.
C1_Witness ==
  relayPc = "failed" /\ maxRetries = 2 /\ calls = 3 /\ sleeps = 2

\* C2: when ProcessMessage fails with a retryable error k < maxRetries times
\* and then succeeds, the relay keeps retrying after each failure, and the
\* successful call ends the message as applied: the record has processed =
\* true, after exactly k+1 calls and k sleeps.
C2_RetryThenApplied ==
  /\ [][(calls' = calls + 1 /\ returned'.isNil /\ fails < maxRetries)
          => /\ relayPc' = "success"
             /\ calls' = fails + 1
             /\ sleeps' = fails
             /\ \E m \in messages' : m.ID = message.ID /\ m.Processed]_vars
  /\ []((/\ calls >= 1
         /\ ~returned.isNil
         /\ returned.code \notin {ErrorCodeMessageNotFound, ErrorCodeInvalidInput}
         /\ fails < maxRetries)
          => relayPc \in {"sleep", "process"})
  /\ (relayPc = "sleep") ~> (relayPc = "process")

\* Applied at the second call, after one failure and one sleep.
C2_Witness ==
  /\ relayPc = "success"
  /\ maxRetries = 2
  /\ fails = 1
  /\ calls = 2
  /\ sleeps = 1
  /\ \E m \in messages : m.ID = message.ID /\ m.Processed

\* C3: when the first ProcessMessage call for a message fails with
\* MESSAGE_NOT_FOUND or INVALID_INPUT, the relay abandons the message after
\* that one call and no sleep, keeps no error for it (it takes the branch
\* that logs it as handled, not the one that logs a failure), and goes on to
\* the loop top.
C3_NonRetryableAbandoned ==
  /\ [][/\ (/\ calls = 0
            /\ calls' = 1
            /\ returned'.repo
            /\ returned'.code \in {ErrorCodeMessageNotFound, ErrorCodeInvalidInput})
             => /\ relayPc' = "skipped"
                /\ shouldSkipMessage'
                /\ processErr'.isNil
                /\ sleeps' = 0
        /\ (relayPc = "skipped" /\ relayPc' # "skipped") => relayPc' = "top"]_vars
  /\ []((relayPc = "skipped" /\ fails = 1) => (calls = 1 /\ sleeps = 0))

\* Abandoned after one call that returned MESSAGE_NOT_FOUND.
C3_Witness ==
  /\ relayPc = "skipped"
  /\ calls = 1
  /\ sleeps = 0
  /\ returned.code = ErrorCodeMessageNotFound

\* C4: when ProcessMessage fails with a retryable error on all maxRetries+1
\* calls, the relay takes the failure branch and goes on to the loop top; the
\* failing calls, the sleeps and the abandoning leave the table as it was,
\* and the relay puts nothing on the topic.
C4_RetriesExhausted ==
  /\ [][/\ (/\ calls' = calls + 1
            /\ calls' = maxRetries + 1
            /\ fails' = calls'
            /\ returned'.code \notin {ErrorCodeMessageNotFound, ErrorCodeInvalidInput})
             => relayPc' = "failed"
        /\ (foreign' = foreign /\ ~(calls' = calls + 1 /\ returned'.isNil))
             => messages' = messages
        /\ foreign' = foreign => broker' \sqsubseteq broker
        /\ (relayPc = "failed" /\ relayPc' # "failed") => relayPc' = "top"]_vars
  /\ [](relayPc = "failed"
          => /\ calls = maxRetries + 1
             /\ fails = calls
             /\ sleeps = maxRetries
             /\ ~processErr.isNil)

\* Retries exhausted for a record that is still unprocessed.
C4_Witness ==
  /\ relayPc = "failed"
  /\ maxRetries = 2
  /\ fails = 3
  /\ \E m \in messages : m.ID = message.ID /\ ~m.Processed

\* C5: when every store call and sleep returns, every decoded message
\* reaches one of the three closing branches (applied, abandoned as
\* non-retryable, abandoned with retries exhausted), and from each of them
\* the loop reaches the next consumer.ReadMessage.
C5_NoMessageBlocks ==
  /\ (relayPc \in {"process", "sleep"}) ~> (relayPc \in Terminal)
  /\ (relayPc \in Terminal) ~> (relayPc = "read")

\* Applied at the last of the four calls maxRetries = 3 allows.
C5_Witness ==
  relayPc = "success" /\ maxRetries = 3 /\ calls = 4 /\ sleeps = 3

----------------------------------------------------------------------------
(* Submit, statistics and the relay together *)

\* What GetStatistics returns for the table as it is.
Statistics == GetStatistics(messages, "ok").stats

\* The record of the table with this id, as a set (empty when there is none).
Record(table, id) == {m \in table : m.ID = id}

\* C6: the step that creates a record adds one to the total and one to the
\* unprocessed count ({1,0,1} for the first record); a submit answered 200
\* has its record in the table and its envelope on the topic or consumed;
\* a relay call that succeeds keeps the total and leaves the record counted
\* as processed ({1,1,0} when it is the only record).
C6_StatisticsEndToEnd ==
  [][/\ nextID' # nextID
          => /\ Statistics' = [TotalMessages |-> Statistics.TotalMessages + 1,
                               ProcessedMessages |-> Statistics.ProcessedMessages,
                               UnprocessedMessages |-> Statistics.UnprocessedMessages + 1]
             /\ nextID = 1 => Statistics' = [TotalMessages |-> 1,
                                             ProcessedMessages |-> 0,
                                             UnprocessedMessages |-> 1]
     /\ (resp' # resp /\ resp'.op = "submit" /\ resp'.status = StatusOK)
          => /\ Record(messages', resp'.id) # {}
             /\ \E e \in BagToSet(broker') : Unmarshal(e.value).message.ID = resp'.id
     /\ (calls' = calls + 1 /\ returned'.isNil)
          => /\ Statistics'.TotalMessages = Statistics.TotalMessages
             /\ \A m \in Record(messages', message.ID) : m.Processed
             /\ Statistics'.ProcessedMessages = Statistics.ProcessedMessages
                  + Cardinality({m \in Record(messages, message.ID) : ~m.Processed})
             /\ Statistics'.UnprocessedMessages = Statistics.UnprocessedMessages
                  - Cardinality({m \in Record(messages, message.ID) : ~m.Processed})
             /\ Statistics.TotalMessages = 1
                  => Statistics' = [TotalMessages |-> 1,
                                    ProcessedMessages |-> 1,
                                    UnprocessedMessages |-> 0]]_vars

\* The relay has applied the envelope of the first submitted record.
C6_Witness ==
  /\ relayPc = "success"
  /\ origin = "submit"
  /\ message.ID = 1
  /\ calls = 1
  /\ Statistics = [TotalMessages |-> 1, ProcessedMessages |-> 1,
                   UnprocessedMessages |-> 0]

\* C7: when the create succeeds and SendMessage fails, the submit is
\* answered with an error and no id, the step leaves topic and table as they
\* were; from then on the record exists, no envelope for it is on the topic
\* or in the relay's hands, and an unprocessed such record becomes processed
\* only by a PUT /messages/:id/process answered 200.
C7_PublishFailure ==
  /\ [][/\ unqueued' # unqueued
             => /\ resp'.op = "submit"
                /\ resp'.status = StatusInternalServerError
                /\ resp'.id = 0
                /\ broker' = broker
                /\ messages' = messages
        /\ \A i \in unqueued : \A m \in Record(messages, i) :
             (~m.Processed /\ m \notin messages')
               => /\ resp' # resp
                  /\ resp'.op = "process"
                  /\ resp'.id = i
                  /\ resp'.status = StatusOK
                  /\ UNCHANGED relayVars]_vars
  /\ [](\A i \in unqueued :
          /\ Record(messages, i) # {}
          /\ \A e \in BagToSet(broker) : Unmarshal(e.value).message.ID # i
          /\ message.ID # i)

\* The publish of the first record has failed: answered 500, the record is
\* in the table unprocessed, the topic is empty.
C7_Witness ==
  /\ unqueued = {1}
  /\ resp.op = "submit"
  /\ resp.status = StatusInternalServerError
  /\ \E m \in Record(messages, 1) : ~m.Processed
  /\ broker = EmptyBag

\* C8: a submit of valid content whose create fails is answered with the
\* error's status and no id, and the step adds no record and leaves the
\* topic and the submits waiting to publish as they were.
C8_CreateFailure ==
  [][(/\ resp = NoResponse
      /\ resp'.op = "submit"
      /\ resp'.status # StatusOK
      /\ unqueued' = unqueued
      /\ resp'.content \in ValidContents)
       => /\ messages' = messages
          /\ broker' = broker
          /\ inflight' = inflight
          /\ resp'.id = 0
          /\ resp'.status \in {StatusBadRequest, StatusInternalServerError}]_vars

\* A create has failed on the empty table: answered 500, nothing stored.
C8_Witness ==
  /\ resp.op = "submit"
  /\ resp.status = StatusInternalServerError
  /\ resp.content = <<"a">>
  /\ unqueued = {}
  /\ messages = {}
  /\ broker = EmptyBag

\* C9: in every reachable state the statistics of the table, and every
\* statistics answer, have processed + unprocessed = total, the total being
\* the number of records.
C9_StatisticsPartition ==
  /\ Statistics.ProcessedMessages + Statistics.UnprocessedMessages
       = Statistics.TotalMessages
  /\ Statistics.TotalMessages = Cardinality(messages)
  /\ (resp.op = "statistics" /\ resp.status = StatusOK)
       => resp.stats.ProcessedMessages + resp.stats.UnprocessedMessages
            = resp.stats.TotalMessages

\* A statistics answer over two records, one of them processed.
C9_Witness ==
  /\ resp.op = "statistics"
  /\ resp.stats = [TotalMessages |-> 2, ProcessedMessages |-> 1,
                   UnprocessedMessages |-> 1]

\* C10: a submit of invalid content (empty, longer than the maximum, or
\* with '<' or '>') is answered 400 without an id; the step leaves table,
\* sequence, topic and waiting submits as they were, and no record or
\* envelope ever carries such a content.
C10_InvalidContentRejected ==
  /\ [][(resp' # resp /\ resp'.op = "submit" /\ resp'.content \in InvalidContents)
          => /\ resp'.status = StatusBadRequest
             /\ resp'.id = 0
             /\ messages' = messages
             /\ nextID' = nextID
             /\ broker' = broker
             /\ inflight' = inflight]_vars
  /\ [](/\ \A m \in messages \cup inflight : m.Content \notin InvalidContents
        /\ \A e \in BagToSet(broker) : e.value.content \notin InvalidContents
        /\ message.Content \notin (InvalidContents \ {<<>>}))

\* An over-long content has been refused while a record is stored.
C10_Witness ==
  /\ resp.op = "submit"
  /\ resp.content = LongContent
  /\ resp.status = StatusBadRequest
  /\ messages # {}

----------------------------------------------------------------------------
(* The repository called directly *)

\* C11: CreateMessage of the repository, called directly with a content
\* that is empty, longer than the maximum or has '<' or '>', returns
\* INVALID_INPUT and creates no record.
C11_StoreRejectsInvalidContent ==
  [][(ret' # ret /\ ret'.op = "create" /\ ret'.content \in InvalidContents)
       => /\ ret'.err.repo
          /\ ret'.err.code = ErrorCodeInvalidInput
          /\ messages' = messages]_vars

\* The repository has stored an over-long content and returned no error.
C11_Witness ==
  /\ ret.op = "create"
  /\ ret.content = LongContent
  /\ ret.err.isNil
  /\ \E m \in messages : m.ID = ret.message.ID /\ m.Content = LongContent

----------------------------------------------------------------------------
(* Cancellation and shutdown *)

\* C12: with ctx cancelled, the loop at its top returns without calling
\* ReadMessage, and a ReadMessage that fails makes it return without a
\* ProcessMessage call; once returned it never reads or calls again.
C12_CancelledLoopExits ==
  [][/\ (ctxDone /\ relayPc = "top" /\ relayPc' # relayPc)
          => (relayPc' = "exited" /\ broker' = broker)
     /\ (ctxDone /\ relayPc = "read" /\ relayPc' # relayPc)
          => /\ relayPc' = "exited"
             /\ calls' = calls
             /\ messages' = messages
             /\ broker' = broker
     /\ relayPc = "exited"
          => /\ relayPc' = "exited"
             /\ calls' = calls
             /\ messages' = messages
             /\ broker \sqsubseteq broker']_vars

\* The loop has returned on cancellation and left a payload on the topic.
C12_Witness ==
  ctxDone /\ relayPc = "exited" /\ broker # EmptyBag

\* C13: when ctx is cancelled while the relay is retrying a message, the
\* retry delay ends in the loop's return and no further ProcessMessage call
\* is made for that message.
C13_RetryObservesCancellation ==
  [][/\ (ctxDone /\ relayPc = "sleep" /\ relayPc' # relayPc) => relayPc' = "exited"
     /\ (ctxDone /\ calls >= 1) => calls' <= calls]_vars

\* With ctx cancelled and one attempt made, the relay is in its retry delay.
C13_Witness ==
  ctxDone /\ relayPc = "sleep" /\ calls >= 1

\* C14: after the shutdown signal (main has closed the consumer) the loop
\* stops: a ReadMessage failing on the closed consumer is not logged and
\* followed by another iteration.
C14_LoopStopsOnShutdown ==
  [][(consumerClosed /\ relayPc = "read" /\ relayPc' # relayPc)
       => relayPc' = "exited"]_vars

\* The loop goes on after a read has failed on the closed consumer, while
\* main has not cancelled ctx.
C14_Witness ==
  consumerClosed /\ ~ctxDone /\ relayPc = "read_err"

----------------------------------------------------------------------------
(* Errors on the synchronous path *)

\* C15: when the repository call behind a request fails for a connection or
\* transport failure, the request is answered 503 (the repository having
\* classified the failure as DATABASE_CONNECTION_ERROR), not 500.
C15_ConnectionFailureIs503 ==
  resp.outcome = "fail" => resp.status = StatusServiceUnavailable

\* A direct mark whose UPDATE met a connection failure is answered 500.
C15_Witness ==
  /\ resp.op = "process"
  /\ resp.outcome = "fail"
  /\ resp.status = StatusInternalServerError

----------------------------------------------------------------------------
(* The repository's records *)

\* C16: for every valid content, a CreateMessage that succeeds followed by
\* GetMessageByID of the returned id yields the record with that content,
\* processed = false and created_at = updated_at.
C16_CreateThenGet ==
  [][/\ (ret' # ret /\ ret'.op = "create" /\ ret'.err.isNil)
          => LET got == GetMessageByID(messages', ret'.message.ID, "ok")
             IN  /\ ret'.content \in ValidContents
                 /\ got.err.isNil
                 /\ got.message = ret'.message
                 /\ got.message.Content = ret'.content
                 /\ ~got.message.Processed
                 /\ got.message.CreatedAt = got.message.UpdatedAt
     /\ (/\ ret.op = "create"
         /\ ret.err.isNil
         /\ ret'.op = "get"
         /\ ret'.id = ret.message.ID
         /\ ret'.err.isNil)
          => /\ ret'.message.Content = ret.content
             /\ ~ret'.message.Processed
             /\ ret'.message.CreatedAt = ret'.message.UpdatedAt]_vars

\* A record created after a tick, read back unprocessed with equal times.
C16_Witness ==
  /\ ret.op = "get"
  /\ ret.err.isNil
  /\ ret.message.Content = <<"h", "i">>
  /\ ~ret.message.Processed
  /\ ret.message.CreatedAt = 1
  /\ ret.message.UpdatedAt = 1

\* C17: for an existing id, marking the record processed twice succeeds both
\* times and the record has processed = true after each call; a call on a
\* record that is already processed changes neither its flag, id and content
\* nor the statistics.
C17_MarkProcessedIdempotent ==
  /\ [](\A m \in messages :
          LET first == ProcessMessage(messages, m.ID, now, "ok")
              second == ProcessMessage(first.table, m.ID, now, "ok")
          IN  /\ first.err.isNil
              /\ second.err.isNil
              /\ \A r \in {x \in first.table : x.ID = m.ID} : r.Processed
              /\ \A r \in {x \in second.table : x.ID = m.ID} : r.Processed
              /\ GetStatistics(second.table, "ok") = GetStatistics(first.table, "ok"))
  /\ [][(/\ ret'.op = "update"
         /\ ret'.processed
         /\ ret'.err.isNil
         /\ messages' # messages
         /\ \E m \in messages : m.ID = ret'.id /\ m.Processed)
          => /\ GetStatistics(messages', "ok") = GetStatistics(messages, "ok")
             /\ \A m \in messages : \E n \in messages' :
                  /\ n.ID = m.ID
                  /\ n.Content = m.Content
                  /\ n.Processed = m.Processed
                  /\ n.CreatedAt = m.CreatedAt]_vars

\* A record marked processed at a later tick than it was created.
C17_Witness ==
  /\ ret.op = "update"
  /\ ret.processed
  /\ ret.err.isNil
  /\ \E m \in messages :
       m.ID = ret.id /\ m.Processed /\ m.CreatedAt = 0 /\ m.UpdatedAt = MaxTime

\* C18: a direct mark of a positive id that has no record is answered 404
\* (the repository returns MESSAGE_NOT_FOUND) and leaves every record and
\* the statistics as they were; 404 is answered in no other case.
C18_MarkMissingIsNotFound ==
  [][/\ (/\ resp' # resp
         /\ resp'.op = "process"
         /\ resp'.outcome = "ok"
         /\ resp'.id > 0
         /\ Record(messages, resp'.id) = {})
          => /\ resp'.status = StatusNotFound
             /\ messages' = messages
             /\ Statistics' = Statistics
     /\ (resp' # resp /\ resp'.status = StatusNotFound)
          => /\ resp'.op = "process"
             /\ Record(messages, resp'.id) = {}
             /\ messages' = messages]_vars

\* A direct mark of an id without record is answered 404 while another
\* record is stored.
C18_Witness ==
  /\ resp.op = "process"
  /\ resp.status = StatusNotFound
  /\ messages # {}
  /\ Record(messages, resp.id) = {}

\* C19: under every interleaving of submits, direct marks and relay applies
\* a record that is processed stays processed, and the processed count
\* never decreases.
C19_ProcessedMonotonic ==
  [][/\ \A m \in messages : m.Processed => \E n \in Record(messages', m.ID) : n.Processed
     /\ Statistics'.ProcessedMessages >= Statistics.ProcessedMessages]_vars

\* A record already processed has been marked again, by a request and by
\* the relay.
C19_Witness ==
  /\ relayPc = "success"
  /\ resp.op = "process"
  /\ resp.status = StatusOK
  /\ resp.id = message.ID
  /\ \E m \in Record(messages, message.ID) : m.Processed

\* C20: a record enters the table only in the creating step of a submit,
\* with the next id of the sequence; no step removes a record or changes a
\* record's id or content, ids stay unique, and the number of records never
\* decreases.
C20_RecordsKept ==
  /\ [][/\ \A m \in messages : \E n \in Record(messages', m.ID) : n.Content = m.Content
        /\ Cardinality(messages') >= Cardinality(messages)
        /\ \A n \in messages' :
             Record(messages, n.ID) = {}
               => /\ n.ID = nextID
                  /\ nextID' = nextID + 1
                  /\ n \in inflight'
                  /\ ~n.Processed
                  /\ Cardinality(messages') = Cardinality(messages) + 1]_vars
  /\ [](\A m \in messages : Record(messages, m.ID) = {m})

\* Two records, the first processed by the relay, the second by a request.
C20_Witness ==
  /\ Cardinality(messages) = 2
  /\ \A m \in messages : m.Processed /\ m.Content = <<"a">>
  /\ relayPc = "success"
  /\ message.ID = 1
  /\ resp.op = "process"
  /\ resp.id = 2
  /\ resp.status = StatusOK

----------------------------------------------------------------------------
(* Record ids *)

\* The ids of the records of a table.
Ids(table) == {m.ID : m \in table}

\* C21: every record's id is a positive integer that the store's sequence
\* has handed out, no two records share an id whatever the interleaving of
\* the submits, and an id once in the table stays in it: a step adds at most
\* the sequence's next id and changes no other.
C21_IdsPositiveUniqueStable ==
  /\ [](\A m \in messages :
         /\ m.ID \in 1..(nextID - 1)
         /\ \A n \in messages : n.ID = m.ID => n = m)
  /\ [](\A m \in inflight : m.ID \in Ids(messages))
  /\ [][/\ Ids(messages) \subseteq Ids(messages')
        /\ Ids(messages') \subseteq Ids(messages) \cup {nextID}
        /\ nextID' >= nextID
        /\ Cardinality(Ids(messages')) = Cardinality(messages')]_vars

\* Two submits between create and publish at once, holding ids 1 and 2.
C21_Witness ==
  /\ Cardinality(inflight) = 2
  /\ Ids(inflight) = {1, 2}
  /\ Ids(messages) = {1, 2}
  /\ nextID = 3

----------------------------------------------------------------------------
(* One publish per submit *)

\* The number of envelopes of a topic that submit published for an id,
\* counting the one the relay has consumed and is still handling.
Published(topic, id) ==
  LET entries == {e \in BagToSet(topic) : e.origin = "submit" /\ e.value.id = id}
      sum[S \in SUBSET entries] ==
        IF S = {} THEN 0
        ELSE LET e == CHOOSE x \in S : TRUE
             IN  CopiesIn(e, topic) + sum[S \ {e}]
  IN  sum[entries] + (IF origin = "submit" /\ message.ID = id THEN 1 ELSE 0)

\* C22: the publishing step of a submit calls SendMessage once: when it
\* answers 200 the topic has gained exactly one envelope, the one of the
\* record whose id is returned, and when it answers an error the topic is
\* unchanged; the submit is then no longer pending, so it publishes nothing
\* more, and the topic never holds two envelopes published for one id.
C22_PublishOnce ==
  /\ [][(resp = NoResponse /\ resp'.op = "submit" /\ resp'.status = StatusOK)
          => \E m \in inflight :
               /\ resp'.id = m.ID
               /\ broker' = broker (+) SetToBag({[value |-> Marshal(m), origin |-> "submit"]})
               /\ inflight' = inflight \ {m}
               /\ Published(broker', m.ID) = 1]_vars
  /\ [][(resp = NoResponse /\ resp'.op = "submit" /\ resp'.status # StatusOK)
          => broker' = broker]_vars
  /\ [][\A id \in 1..MaxID :
          Published(broker', id) > Published(broker, id)
            => /\ Published(broker, id) = 0
               /\ \E m \in inflight \ inflight' : m.ID = id]_vars
  /\ [](\A id \in 1..MaxID : Published(broker, id) <= 1)

\* Two submits answered, the second with id 2; both envelopes on the topic.
C22_Witness ==
  /\ resp.op = "submit"
  /\ resp.status = StatusOK
  /\ resp.id = 2
  /\ Published(broker, 1) = 1
  /\ Published(broker, 2) = 1
  /\ inflight = {}

----------------------------------------------------------------------------
(* A failed read *)

\* C23: when ReadMessage fails while ctx is not cancelled, the relay does not
\* return: it logs the failure without calling the store or touching the
\* topic, goes back to the loop top, and from there (ctx still not
\* cancelled) to ReadMessage again, having made no store call on the way.
C23_ReadFailureContinues ==
  /\ [][(relayPc = "read" /\ relayPc' # "read" /\ broker' = broker /\ ~ctxDone)
          => /\ relayPc' = "read_err"
             /\ messages' = messages
             /\ calls' = 0]_vars
  /\ [][(relayPc = "read_err" /\ relayPc' # "read_err")
          => /\ relayPc' = "top"
             /\ messages' = messages
             /\ broker' = broker
             /\ calls' = 0]_vars
  /\ [][(relayPc = "top" /\ relayPc' # "top" /\ ~ctxDone)
          => /\ relayPc' = "read"
             /\ messages' = messages
             /\ calls' = 0]_vars
  /\ [](relayPc \in {"read", "read_err", "top"} => calls = 0)

\* A read has failed with a payload waiting on the topic and the consumer
\* still open: a transport error.
C23_Witness ==
  /\ relayPc = "read_err"
  /\ broker # EmptyBag
  /\ mainPc = "serving"

----------------------------------------------------------------------------
(* A payload that does not decode *)

\* C24: a consumed payload that json.Unmarshal rejects is dropped: the step
\* that takes it off the topic goes to the decode-error log line without a
\* store call and without a message to retry, and the next step of the relay
\* is the loop top with table and topic as they were; no step of the relay
\* puts a payload back on the topic.
C24_UndecodableDropped ==
  /\ [][\A e \in BagToSet(broker) :
          (~e.value.json /\ CopiesIn(e, broker') < CopiesIn(e, broker))
            => /\ broker' = broker (-) SetToBag({e})
               /\ relayPc' = "decode_err"
               /\ messages' = messages
               /\ message' = ZeroMessage
               /\ calls' = 0
               /\ sleeps' = 0]_vars
  /\ [][(relayPc = "decode_err" /\ relayPc' # "decode_err")
          => /\ relayPc' = "top"
             /\ messages' = messages
             /\ broker' = broker
             /\ calls' = 0
             /\ sleeps' = 0]_vars
  /\ [][foreign' = foreign => broker' \sqsubseteq broker]_vars
  /\ [](relayPc = "decode_err" => calls = 0 /\ sleeps = 0 /\ message = ZeroMessage)

\* The malformed payload has been consumed, the topic is empty and the
\* stored record is untouched.
C24_Witness ==
  /\ relayPc = "decode_err"
  /\ foreign = 1
  /\ broker = EmptyBag
  /\ \E m \in messages : ~m.Processed

----------------------------------------------------------------------------
(* One message at a time *)

\* C25: the relay takes a payload off the topic only at ReadMessage, one at
\* a time and with no message in hand; from then until the retry loop has
\* ended in one of its closing branches it takes no other payload and keeps
\* the same message, however many submits are publishing meanwhile.
C25_OneMessageInFlight ==
  /\ [][(\E e \in BagToSet(broker) : CopiesIn(e, broker') < CopiesIn(e, broker))
          => /\ relayPc = "read"
             /\ origin = "none"
             /\ calls = 0
             /\ \E e \in BagToSet(broker) : broker' = broker (-) SetToBag({e})]_vars
  /\ [][(relayPc \in {"process", "sleep"})
          => /\ broker \sqsubseteq broker'
             /\ message' = message
             /\ origin' = origin
             /\ relayPc' \in ({"process", "sleep"} \cup Terminal)]_vars
  /\ [][(origin' # origin /\ origin' # "none") => origin = "none"]_vars
  /\ [](origin # "none" <=> relayPc \in ({"process", "sleep"} \cup Terminal))

\* The relay is in the retry delay of the first record's envelope while the
\* second record's envelope waits on the topic.
C25_Witness ==
  /\ relayPc = "sleep"
  /\ message.ID = 1
  /\ \E e \in BagToSet(broker) : e.value.id = 2
  /\ calls = 1

----------------------------------------------------------------------------
(* The relay trusts only the envelope's id *)

\* A table after the update the relay asks for: processed and updated_at of
\* the record with the id, nothing else.
Applied(table, id, t) ==
  {IF m.ID = id THEN [m EXCEPT !.Processed = TRUE, !.UpdatedAt = t] ELSE m : m \in table}

\* C26: what a call of the relay writes is determined by the envelope's id:
\* a successful call sets processed (and the update time) of the record with
\* that id and leaves every content, creation time and other record as it
\* was, a failed call writes nothing; so after either of two envelopes that
\* name record 1 and differ in content, processed and timestamps, the
\* table is the same, with processed = true for that record.
C26_OnlyTheIdCounts ==
  /\ [][calls' = calls + 1
          => messages' = IF returned'.isNil
                         THEN Applied(messages, message.ID, now)
                         ELSE messages]_vars
  /\ [][\A n \in messages' :
          \E m \in messages :
            /\ m.ID = n.ID
            /\ m.Content = n.Content
            /\ m.CreatedAt = n.CreatedAt]_vars
  /\ []((relayPc = "success" /\ calls >= 1 /\ message.ID = 1)
          => messages = {[ID |-> 1, Content |-> <<"a">>, Processed |-> TRUE,
                          CreatedAt |-> 0, UpdatedAt |-> now]})

\* The envelope with another content, processed already true and later
\* timestamps has been applied to record 1.
C26_Witness ==
  /\ relayPc = "success"
  /\ calls >= 1
  /\ message.ID = 1
  /\ message.Content = <<"x">>
  /\ message.Processed
  /\ message.CreatedAt = 1
  /\ \E m \in messages : m.ID = 1 /\ m.Processed /\ m.Content = <<"a">> /\ m.CreatedAt = 0

----------------------------------------------------------------------------
(* Published envelopes name stored records *)

\* C27: every envelope that submit has published, on the topic or in the
\* relay's hands, carries the id of a record that is in the table, and a
\* relay call for such an envelope never returns MESSAGE_NOT_FOUND, whatever
\* the interleaving of the submits and the consume loop.
C27_PublishedRecordExists ==
  /\ [](\A e \in BagToSet(broker) :
          e.origin = "submit" => Record(messages, e.value.id) # {})
  /\ [](origin = "submit"
          => /\ Record(messages, message.ID) # {}
             /\ ~(returned.repo /\ returned.code = ErrorCodeMessageNotFound))
  /\ [][(origin = "submit" /\ calls' = calls + 1)
          => /\ ~(returned'.repo /\ returned'.code = ErrorCodeMessageNotFound)
             /\ (returned'.isNil => \A m \in Record(messages', message.ID) : m.Processed)]_vars

\* The relay has applied the second record's envelope at its first call
\* while the first record's submit has not published yet.
C27_Witness ==
  /\ relayPc = "success"
  /\ origin = "submit"
  /\ message.ID = 2
  /\ calls = 1
  /\ \E m \in inflight : m.ID = 1
  /\ \E m \in messages : m.ID = 2 /\ m.Processed

----------------------------------------------------------------------------
(* A first attempt for every message *)

\* C28: whatever maxRetries is, zero and negative values included, a decoded
\* message reaches a closing branch of its iteration only after at least one
\* ProcessMessage call.
C28_AtLeastOneAttempt ==
  relayPc \in Terminal => calls >= 1

\* With maxRetries = -1 the envelope of the stored record 1 is logged as
\* successfully processed, no call made and the record still unprocessed.
C28_Witness ==
  /\ maxRetries = -1
  /\ relayPc = "success"
  /\ message.ID = 1
  /\ calls = 0
  /\ \E m \in messages : m.ID = 1 /\ ~m.Processed

----------------------------------------------------------------------------
(* A non-retryable error after retries *)

\* C29: a ProcessMessage call that returns MESSAGE_NOT_FOUND or INVALID_INPUT
\* ends the retry loop at once, on whichever attempt it comes: after j
\* retryable failures and j sleeps (j <= maxRetries) the relay is in the
\* skipped branch with exactly j + 1 calls and j sleeps, no error kept, and
\* its next step is the loop top.
C29_NonRetryableOnAnyAttempt ==
  /\ [][(calls' = calls + 1 /\ returned'.repo
           /\ returned'.code \in {ErrorCodeMessageNotFound, ErrorCodeInvalidInput})
          => /\ relayPc' = "skipped"
             /\ calls <= maxRetries
             /\ fails = calls
             /\ fails' = calls + 1
             /\ sleeps = calls
             /\ sleeps' = sleeps
             /\ processErr'.isNil
             /\ messages' = messages]_vars
  /\ [][(relayPc = "skipped" /\ relayPc' # "skipped")
          => /\ relayPc' = "top"
             /\ messages' = messages
             /\ broker' = broker]_vars
  /\ [](relayPc = "skipped"
          => /\ calls = sleeps + 1
             /\ fails = calls
             /\ returned.code \in {ErrorCodeMessageNotFound, ErrorCodeInvalidInput})

\* maxRetries = 2: two retryable failures, two sleeps, then MESSAGE_NOT_FOUND
\* on the third and last attempt.
C29_Witness ==
  /\ maxRetries = 2
  /\ relayPc = "skipped"
  /\ calls = 3
  /\ sleeps = 2
  /\ returned.code = ErrorCodeMessageNotFound

----------------------------------------------------------------------------
(* The relay and a direct mark on the same record *)

\* The relay has an envelope of record id in hand, its retry loop unfinished
\* or just ended.
RelayTargets(id) ==
  /\ relayPc \in ({"process", "sleep"} \cup Terminal)
  /\ message.ID = id

\* C30: when PUT /messages/:id/process and the relay's apply target the same
\* stored record at once, the order does not matter: a request whose
\* statement runs is answered 200 whether or not the relay has applied
\* already, a relay call made after the request was answered 200 returns
\* nil or a retryable failure and never MESSAGE_NOT_FOUND, each leaves the
\* table as one application of processed = true to that record, and once
\* both have succeeded the record is processed and counted once.
C30_ApplyAndMarkCommute ==
  /\ [][(/\ resp = NoResponse
          /\ resp'.op = "process"
          /\ resp'.outcome = "ok"
          /\ Record(messages, resp'.id) # {}
          /\ RelayTargets(resp'.id))
          => /\ resp'.status = StatusOK
             /\ messages' = Applied(messages, resp'.id, now)]_vars
  /\ [][(/\ calls' = calls + 1
          /\ resp.op = "process"
          /\ resp.status = StatusOK
          /\ resp.id = message.ID)
          => /\ ~(returned'.repo /\ returned'.code = ErrorCodeMessageNotFound)
             /\ messages' = IF returned'.isNil
                            THEN Applied(messages, message.ID, now)
                            ELSE messages]_vars
  /\ []((/\ relayPc = "success"
          /\ calls >= 1
          /\ resp.op = "process"
          /\ resp.status = StatusOK
          /\ resp.id = message.ID)
          => /\ \A m \in Record(messages, message.ID) : m.Processed
             /\ Record(messages, message.ID) # {}
             /\ Statistics.ProcessedMessages =
                  Cardinality({m \in messages : m.Processed})
             /\ (Cardinality(messages) = 1
                   => Statistics = [TotalMessages |-> 1, ProcessedMessages |-> 1,
                                    UnprocessedMessages |-> 0]))

\* The relay's first call failed; during its retry delay the request marked
\* the record; the relay's second call then succeeded on the record already
\* processed, the request's answer still being written.
C30_Witness ==
  /\ relayPc = "success"
  /\ calls = 2
  /\ fails = 1
  /\ message.ID = 1
  /\ resp.op = "process"
  /\ resp.status = StatusOK
  /\ resp.id = 1
  /\ Statistics = [TotalMessages |-> 1, ProcessedMessages |-> 1,
                   UnprocessedMessages |-> 0]

====
